---- MODULE Spec2Model ----
(***************************************************************************)
(* Route planning and weather analysis (src/tools/route_planning.py):      *)
(* route resolution with its directions / curated-table / interpolation    *)
(* tiers, the severity classifier, the recommendation engine and the       *)
(* orchestrator that sequences them.                                       *)
(*                                                                         *)
(* Representation.  A text (city name, weather condition) is a sequence of *)
(* one-character strings, so that str.lower() and the `in` substring test  *)
(* are computed.  A coordinate is a pair of integers (lat, lon), in km on  *)
(* a plane tangent near 12 N (lat = north, lon = east of the point 8 N,    *)
(* 72 E); on it the haversine distance of calculate_distance is the        *)
(* Euclidean one.  A distance is an integer number of tenths of a km; the  *)
(* code rounds the stored distance_from_start to 0.01 km, the model to a   *)
(* whole km.  The "state" (region) field of a city is carried through the  *)
(* code untouched and is left out.                                         *)
(***************************************************************************)
EXTENDS Integers, Sequences, FiniteSets, TLC

(* ------------------------------ texts ---------------------------------- *)

\* str.lower() on one character
LowerChar(c) ==
  CASE c = "A" -> "a"
    [] c = "B" -> "b"
    [] c = "C" -> "c"
    [] c = "D" -> "d"
    [] c = "E" -> "e"
    [] c = "F" -> "f"
    [] c = "G" -> "g"
    [] c = "H" -> "h"
    [] c = "I" -> "i"
    [] c = "J" -> "j"
    [] c = "K" -> "k"
    [] c = "L" -> "l"
    [] c = "M" -> "m"
    [] c = "N" -> "n"
    [] c = "O" -> "o"
    [] c = "P" -> "p"
    [] c = "Q" -> "q"
    [] c = "R" -> "r"
    [] c = "S" -> "s"
    [] c = "T" -> "t"
    [] c = "U" -> "u"
    [] c = "V" -> "v"
    [] c = "W" -> "w"
    [] c = "X" -> "x"
    [] c = "Y" -> "y"
    [] c = "Z" -> "z"
    [] OTHER -> c

\* str.lower()
lower(s) == [i \in 1..Len(s) |-> LowerChar(s[i])]

\* `word in text`: word is a substring of text
contains(word, text) ==
  \E i \in 0..(Len(text) - Len(word)) : SubSeq(text, i + 1, i + Len(word)) = word

(* ----------------------------- geometry -------------------------------- *)

\* the None of Python, as the result of a call that found nothing
none == [kind |-> "none"]

RECURSIVE isqrt_between(_, _, _)
\* the largest r in lo..hi with r * r <= n (math.sqrt, rounded down)
isqrt_between(n, lo, hi) ==
  IF lo >= hi THEN lo
  ELSE LET mid == (lo + hi + 1) \div 2
       IN  IF mid * mid <= n THEN isqrt_between(n, mid, hi)
                             ELSE isqrt_between(n, lo, mid - 1)

\* distance of two coordinates, in tenths of a km
calculate_distance(lat1, lon1, lat2, lon2) ==
  LET dlat == lat2 - lat1
      dlon == lon2 - lon1
  IN  isqrt_between(100 * (dlat * dlat + dlon * dlon), 0, 46340)

\* round(dist, 2): to the model's rounding grain (10 tenths), half up
round2(dist) == ((dist + 5) \div 10) * 10

\* threshold_km's default, in tenths of a km
DEFAULT_THRESHOLD == 500

is_point_near_route(point_lat, point_lon, start_lat, start_lon, end_lat, end_lon, threshold_km) ==
  LET dist_to_start == calculate_distance(point_lat, point_lon, start_lat, start_lon)
      dist_to_end   == calculate_distance(point_lat, point_lon, end_lat, end_lon)
      route_length  == calculate_distance(start_lat, start_lon, end_lat, end_lon)
      total_detour  == dist_to_start + dist_to_end - route_length
  IN  IF dist_to_start < threshold_km \/ dist_to_end < threshold_km
      THEN TRUE
      ELSE total_detour < threshold_km

\* the curated table, in the dictionary's (insertion) order
MAJOR_CITIES_INDIA ==
  <<
    [name |-> <<"C","h","e","n","n","a","i">>, lat |-> 565, lon |-> 900],
    [name |-> <<"T","r","i","c","h","y">>, lat |-> 310, lon |-> 729],
    [name |-> <<"T","i","r","u","c","h","i","r","a","p","p","a","l","l","i">>, lat |-> 310, lon |-> 729],
    [name |-> <<"V","i","l","l","u","p","u","r","a","m">>, lat |-> 438, lon |-> 814],
    [name |-> <<"P","e","r","a","m","b","a","l","u","r">>, lat |-> 359, lon |-> 748],
    [name |-> <<"A","r","i","y","a","l","u","r">>, lat |-> 349, lon |-> 770],
    [name |-> <<"S","a","l","e","m">>, lat |-> 407, lon |-> 668],
    [name |-> <<"C","o","i","m","b","a","t","o","r","e">>, lat |-> 335, lon |-> 539],
    [name |-> <<"M","a","d","u","r","a","i">>, lat |-> 214, lon |-> 666],
    [name |-> <<"B","a","n","g","a","l","o","r","e">>, lat |-> 553, lon |-> 608],
    [name |-> <<"B","e","n","g","a","l","u","r","u">>, lat |-> 553, lon |-> 608],
    [name |-> <<"H","o","s","u","r">>, lat |-> 527, lon |-> 634],
    [name |-> <<"K","r","i","s","h","n","a","g","i","r","i">>, lat |-> 502, lon |-> 676],
    [name |-> <<"D","h","a","r","m","a","p","u","r","i">>, lat |-> 458, lon |-> 670],
    [name |-> <<"V","e","l","l","o","r","e">>, lat |-> 547, lon |-> 776],
    [name |-> <<"K","a","n","c","h","i","p","u","r","a","m">>, lat |-> 538, lon |-> 838],
    [name |-> <<"H","y","d","e","r","a","b","a","d">>, lat |-> 1044, lon |-> 705],
    [name |-> <<"M","u","m","b","a","i">>, lat |-> 1232, lon |-> 95],
    [name |-> <<"D","e","l","h","i">>, lat |-> 2302, lon |-> 555],
    [name |-> <<"K","o","l","k","a","t","a">>, lat |-> 1620, lon |-> 1780],
    [name |-> <<"P","u","n","e">>, lat |-> 1170, lon |-> 202],
    [name |-> <<"A","h","m","e","d","a","b","a","d">>, lat |-> 1670, lon |-> 62]
  >>

(* ------------------------- severity classifier ------------------------- *)

CRITICAL_WORDS == << <<"t","h","u","n","d","e","r","s","t","o","r","m">>, <<"t","o","r","n","a","d","o">>, <<"h","u","r","r","i","c","a","n","e">>, <<"c","y","c","l","o","n","e">>, <<"s","e","v","e","r","e"," ","s","t","o","r","m">> >>

HIGH_WORDS == << <<"h","e","a","v","y"," ","r","a","i","n">>, <<"h","e","a","v","y"," ","s","n","o","w">>, <<"b","l","i","z","z","a","r","d">>, <<"h","a","i","l">>, <<"i","c","e"," ","s","t","o","r","m">> >>

MEDIUM_WORDS == << <<"m","o","d","e","r","a","t","e"," ","r","a","i","n">>, <<"l","i","g","h","t"," ","s","n","o","w">>, <<"f","o","g">>, <<"m","i","s","t">> >>

\* any(word in condition for word in words)
any_word_in(words, condition) ==
  \E k \in 1..Len(words) : contains(words[k], condition)

\* the classifier with its upper critical temperature bound made inclusive
assess_weather_severity_inclusive(weather) ==
  LET condition  == lower(weather.condition)
      wind_speed == weather.wind_speed
      temp       == weather.temperature
  IN  IF any_word_in(CRITICAL_WORDS, condition) THEN "critical"
      ELSE IF temp >= 48 \/ temp < -5 THEN "critical"
      ELSE IF wind_speed > 60 THEN "critical"
      ELSE IF any_word_in(HIGH_WORDS, condition) THEN "high"
      ELSE IF temp > 43 \/ temp < 2 THEN "high"
      ELSE IF wind_speed > 40 THEN "high"
      ELSE IF any_word_in(MEDIUM_WORDS, condition) THEN "medium"
      ELSE IF temp > 38 \/ temp < 8 THEN "medium"
      ELSE IF wind_speed > 25 THEN "medium"
      ELSE "low"

\* the classifier with its HIGH wind bound at 50 km/h
assess_weather_severity_gale(weather) ==
  LET condition  == lower(weather.condition)
      wind_speed == weather.wind_speed
      temp       == weather.temperature
  IN  IF any_word_in(CRITICAL_WORDS, condition) THEN "critical"
      ELSE IF temp > 48 \/ temp < -5 THEN "critical"
      ELSE IF wind_speed > 60 THEN "critical"
      ELSE IF any_word_in(HIGH_WORDS, condition) THEN "high"
      ELSE IF temp > 43 \/ temp < 2 THEN "high"
      ELSE IF wind_speed > 50 THEN "high"
      ELSE IF any_word_in(MEDIUM_WORDS, condition) THEN "medium"
      ELSE IF temp > 38 \/ temp < 8 THEN "medium"
      ELSE IF wind_speed > 25 THEN "medium"
      ELSE "low"

assess_weather_severity(weather) ==
  LET condition  == lower(weather.condition)
      wind_speed == weather.wind_speed
      temp       == weather.temperature
  IN  IF any_word_in(CRITICAL_WORDS, condition) THEN "critical"
      ELSE IF temp > 48 \/ temp < -5 THEN "critical"
      ELSE IF wind_speed > 60 THEN "critical"
      ELSE IF any_word_in(HIGH_WORDS, condition) THEN "high"
      ELSE IF temp > 43 \/ temp < 2 THEN "high"
      ELSE IF wind_speed > 40 THEN "high"
      ELSE IF any_word_in(MEDIUM_WORDS, condition) THEN "medium"
      ELSE IF temp > 38 \/ temp < 8 THEN "medium"
      ELSE IF wind_speed > 25 THEN "medium"
      ELSE "low"

(* ------------------------ recommendation engine ------------------------ *)

\* severity_counts[severity]
severity_count(city_weather, severity) ==
  Cardinality({k \in 1..Len(city_weather) : city_weather[k].severity = severity})

\* [c["city"] for c in city_weather if c.get("severity") == severity]
cities_with(city_weather, severity) ==
  LET picked == SelectSeq(city_weather, LAMBDA c : c.severity = severity)
  IN  [k \in 1..Len(picked) |-> picked[k].city]

\* the engine with the two-HIGH rule asking for more than two
generate_route_recommendation_above_two(city_weather, warnings, severe) ==
  LET count(s)     == severity_count(city_weather, s)
      total_cities == Len(city_weather)
  IN  IF city_weather = <<>> THEN [verdict |-> "no_weather_data", cities |-> <<>>]
      ELSE IF count("critical") > 0
        THEN [verdict |-> "do_not_travel", cities |-> cities_with(city_weather, "critical")]
      ELSE IF count("high") > 2
        THEN [verdict |-> "travel_not_recommended", cities |-> cities_with(city_weather, "high")]
      ELSE IF count("high") = 1
        THEN [verdict |-> "caution_advised", cities |-> << cities_with(city_weather, "high")[1] >>]
      ELSE IF 2 * count("medium") >= total_cities
        THEN [verdict |-> "safe_with_caution", cities |-> <<>>]
      ELSE [verdict |-> "excellent_conditions", cities |-> <<>>]

\* the recommendation: the verdict of the message and the cities it names
generate_route_recommendation(city_weather, warnings, severe) ==
  LET count(s)     == severity_count(city_weather, s)
      total_cities == Len(city_weather)
  IN  IF city_weather = <<>> THEN [verdict |-> "no_weather_data", cities |-> <<>>]
      ELSE IF count("critical") > 0
        THEN [verdict |-> "do_not_travel", cities |-> cities_with(city_weather, "critical")]
      ELSE IF count("high") >= 2
        THEN [verdict |-> "travel_not_recommended", cities |-> cities_with(city_weather, "high")]
      ELSE IF count("high") = 1
        THEN [verdict |-> "caution_advised", cities |-> << cities_with(city_weather, "high")[1] >>]
      ELSE IF 2 * count("medium") >= total_cities
        THEN [verdict |-> "safe_with_caution", cities |-> <<>>]
      ELSE [verdict |-> "excellent_conditions", cities |-> <<>>]

(* --------------------------- collaborators ----------------------------- *)

\* geocode_location(name), when the geocoder answers: the place of that
\* name (any case), under its listed spelling, or none
geocode_location(name) ==
  LET hits == {j \in 1..Len(MAJOR_CITIES_INDIA) :
                 lower(MAJOR_CITIES_INDIA[j].name) = lower(name)}
  IN  IF hits = {} THEN none
      ELSE LET j == CHOOSE h \in hits : TRUE
           IN  [kind |-> "found", name |-> MAJOR_CITIES_INDIA[j].name,
                lat |-> MAJOR_CITIES_INDIA[j].lat, lon |-> MAJOR_CITIES_INDIA[j].lon]

\* what one call of the geocoder can give: its answer, no result, an error
GeocodeOutcomes(name) == {geocode_location(name), none, [kind |-> "raise"]}

\* the longest waypoint list the directions provider returns
MaxWaypoints == 11

\* a route of n waypoints on the straight line from start to end; with
\* `gap`, its first waypoint lacks coordinates
waypoints_on_line(n, start, end, gap) ==
  [w \in 1..n |->
     IF gap /\ w = 1 THEN [kind |-> "missing"]
     ELSE [kind |-> "at",
           lat |-> start.lat + ((end.lat - start.lat) * (w - 1)) \div n,
           lon |-> start.lon + ((end.lon - start.lon) * (w - 1)) \div n]]

\* get_route_from_google_maps: None (no key, HTTP error, no route, an
\* exception) or the list of the steps' start locations, which may be empty
DirectionsOutcomes(start, end) ==
  { none,
    [kind |-> "route", waypoints |-> << >>],
    [kind |-> "route", waypoints |-> waypoints_on_line(1, start, end, FALSE)],
    [kind |-> "route", waypoints |-> waypoints_on_line(MaxWaypoints, start, end, FALSE)],
    [kind |-> "route", waypoints |-> waypoints_on_line(MaxWaypoints, start, end, TRUE)] }

\* the names the reverse geocoder may give for a point of a route
ReverseNames(start_name, end_name) ==
  { << >>, <<"N","a","m","a","k","k","a","l">>, <<"N","A","M","A","K","K","A","L">>, <<"k","a","n","c","h","i","p","u","r","a","m">>, start_name, lower(end_name) }

\* reverse_geocode: None (no key, HTTP error, empty answer, an exception,
\* all caught inside) or the first hit's name
ReverseOutcomes(start_name, end_name) ==
  {none} \cup {[kind |-> "found", name |-> n] : n \in ReverseNames(start_name, end_name)}

\* the observations the weather provider may return
OBSERVATIONS ==
  { [success |-> TRUE,  condition |-> <<"C","l","e","a","r">>,        wind_speed |-> 15, temperature |-> 22],
    [success |-> TRUE,  condition |-> <<"F","o","g">>,          wind_speed |-> 10, temperature |-> 20],
    [success |-> TRUE,  condition |-> <<"H","e","a","v","y"," ","R","a","i","n">>,   wind_speed |-> 45, temperature |-> 24],
    [success |-> TRUE,  condition |-> <<"T","h","u","n","d","e","r","s","t","o","r","m">>, wind_speed |-> 10, temperature |-> 25],
    [success |-> FALSE, condition |-> << >>,          wind_speed |-> 0,  temperature |-> 25] }

\* get_weather_data: an observation, or an error
WeatherOutcomes ==
  {[kind |-> "raise"]} \cup {[kind |-> "return", weather |-> o] : o \in OBSERVATIONS}

(* ------------------------------- state --------------------------------- *)

VARIABLES
  pc,                \* where the analysis stands
  start_city,        \* get_route_weather_analysis's arguments
  end_city,
  start_coords,      \* the orchestrator's geocoder results
  end_coords,
  total_distance,
  route_start,       \* find_cities_along_route's own geocoder results
  route_end,
  waypoints,         \* the directions provider's answer
  i,                 \* the index of the sampling or interpolation loop
  seen_cities,
  route_cities,
  num_points,
  all_cities,
  city_index,        \* the position of the weather loop in all_cities
  city_weather,
  weather_warnings,
  severe_conditions,
  result,            \* what get_route_weather_analysis returned
  log,               \* the calls made so far, each with its outcome
  arg,               \* a function called on its own: its arguments
  ret                \*   and its result

vars ==
  << pc, start_city, end_city, start_coords, end_coords, total_distance,
     route_start, route_end, waypoints, i, seen_cities, route_cities,
     num_points, all_cities, city_index, city_weather, weather_warnings,
     severe_conditions, result, log, arg, ret >>

\* the (start, end) names an analysis is asked for
ROUTES ==
  { << <<"S","a","l","e","m">>, <<"D","h","a","r","m","a","p","u","r","i">> >>,
    << <<"c","h","e","n","n","a","i">>, <<"V","E","L","L","O","R","E">> >>,
    << <<"A","t","l","a","n","t","i","s">>, <<"S","a","l","e","m">> >> }

\* the analysis is called and has done nothing yet
Idle ==
  /\ start_coords = none /\ end_coords = none /\ total_distance = 0
  /\ route_start = none /\ route_end = none
  /\ waypoints = none /\ i = 0 /\ seen_cities = {} /\ route_cities = << >>
  /\ num_points = 0 /\ all_cities = << >> /\ city_index = 0
  /\ city_weather = << >> /\ weather_warnings = << >> /\ severe_conditions = << >>
  /\ result = none /\ log = << >>

Init ==
  /\ pc = "analyze"
  /\ \E r \in ROUTES : start_city = r[1] /\ end_city = r[2]
  /\ Idle
  /\ arg = none /\ ret = none

\* a call and its outcome, as the log keeps it
call(op, n, res) == [op |-> op, n |-> n, res |-> res]

(* ------------------------------ helpers -------------------------------- *)

RECURSIVE sort_by_distance(_)
\* list.sort(key = distance_from_start): stable
sort_by_distance(cities) ==
  IF Len(cities) <= 1 THEN cities
  ELSE LET x      == cities[Len(cities)]
           sorted == sort_by_distance(SubSeq(cities, 1, Len(cities) - 1))
           n      == Cardinality({j \in 1..Len(sorted) :
                        sorted[j].distance_from_start <= x.distance_from_start})
       IN  SubSeq(sorted, 1, n) \o << x >> \o SubSeq(sorted, n + 1, Len(sorted))

\* start -> intermediates -> end
complete_route(intermediate_cities) ==
  << [name |-> start_coords.name, lat |-> start_coords.lat, lon |-> start_coords.lon,
      distance_from_start |-> 0, role |-> "start"] >>
  \o intermediate_cities
  \o << [name |-> end_coords.name, lat |-> end_coords.lat, lon |-> end_coords.lon,
         distance_from_start |-> round2(total_distance), role |-> "end"] >>

\* find_cities_along_route returns `cities`; the orchestrator builds the
\* complete route and turns to the weather
ReturnCities(cities) ==
  /\ route_cities' = cities
  /\ all_cities' = complete_route(cities)
  /\ city_index' = 1
  /\ pc' = "weather"

\* the distance_from_start of every city found on the waypoints
with_distances(cities) ==
  [c \in 1..Len(cities) |->
     [cities[c] EXCEPT !.distance_from_start =
        round2(calculate_distance(route_start.lat, route_start.lon,
                                  cities[c].lat, cities[c].lon))]]

\* the result of get_route_weather_analysis on failure
failure(error) == [success |-> FALSE, error |-> error]

\* the outer handler: an exception that escapes becomes the result
Escapes ==
  /\ result' = failure("exception")
  /\ pc' = "done"

(* ---------------------------- orchestrator ----------------------------- *)

\* get_route_weather_analysis, to its call of find_cities_along_route
Analyze ==
  /\ pc = "analyze"
  /\ \E s \in GeocodeOutcomes(start_city), e \in GeocodeOutcomes(end_city) :
       IF s.kind = "raise"
       THEN /\ log' = log \o << call("geocode", 1, "raise") >>
            /\ Escapes
            /\ UNCHANGED << start_coords, end_coords, total_distance >>
       ELSE IF e.kind = "raise"
       THEN /\ log' = log \o << call("geocode", 1, s.kind), call("geocode", 2, "raise") >>
            /\ Escapes
            /\ UNCHANGED << start_coords, end_coords, total_distance >>
       ELSE /\ log' = log \o << call("geocode", 1, s.kind), call("geocode", 2, e.kind) >>
            /\ IF s.kind = "none" \/ e.kind = "none"
               THEN /\ result' = failure("Could not geocode start or end city")
                    /\ pc' = "done"
                    /\ UNCHANGED << start_coords, end_coords, total_distance >>
               ELSE /\ start_coords' = s
                    /\ end_coords' = e
                    /\ total_distance' = calculate_distance(s.lat, s.lon, e.lat, e.lon)
                    /\ pc' = "resolve"
                    /\ UNCHANGED result
  /\ UNCHANGED << start_city, end_city, route_start, route_end, waypoints, i,
                  seen_cities, route_cities, num_points, all_cities, city_index,
                  city_weather, weather_warnings, severe_conditions, arg, ret >>

(* ------------------------------ resolver ------------------------------- *)

\* find_cities_along_route: its own geocoding of the two names
ResolveGeocode ==
  /\ pc = "resolve"
  /\ \E s \in GeocodeOutcomes(start_city), e \in GeocodeOutcomes(end_city) :
       IF s.kind = "raise"
       THEN /\ log' = log \o << call("geocode", 3, "raise") >>
            /\ Escapes
            /\ UNCHANGED << route_start, route_end, route_cities, all_cities, city_index >>
       ELSE IF e.kind = "raise"
       THEN /\ log' = log \o << call("geocode", 3, s.kind), call("geocode", 4, "raise") >>
            /\ Escapes
            /\ UNCHANGED << route_start, route_end, route_cities, all_cities, city_index >>
       ELSE /\ log' = log \o << call("geocode", 3, s.kind), call("geocode", 4, e.kind) >>
            /\ UNCHANGED result
            /\ IF s.kind = "none" \/ e.kind = "none"
               THEN /\ ReturnCities(<< >>)
                    /\ UNCHANGED << route_start, route_end >>
               ELSE /\ route_start' = s
                    /\ route_end' = e
                    /\ pc' = "directions"
                    /\ UNCHANGED << route_cities, all_cities, city_index >>
  /\ UNCHANGED << start_city, end_city, start_coords, end_coords, total_distance,
                  waypoints, i, seen_cities, num_points, city_weather,
                  weather_warnings, severe_conditions, arg, ret >>

\* the test that takes a route of one waypoint for no route
has_route_of_several(d) == d.kind = "route" /\ Len(d.waypoints) > 1

\* `if waypoints and len(waypoints) > 0`
has_route(d) == d.kind = "route" /\ Len(d.waypoints) > 0

\* the scan of the curated table
RECURSIVE curated_scan(_, _, _, _, _, _)
curated_scan(j, start_name, end_name, start, end, threshold_km) ==
  IF j > Len(MAJOR_CITIES_INDIA) THEN << >>
  ELSE LET city == MAJOR_CITIES_INDIA[j]
           rest == curated_scan(j + 1, start_name, end_name, start, end, threshold_km)
       IN  IF lower(city.name) \in {lower(start_name), lower(end_name)} THEN rest
           ELSE IF is_point_near_route(city.lat, city.lon, start.lat, start.lon,
                                       end.lat, end.lon, threshold_km)
           THEN << [name |-> city.name, lat |-> city.lat, lon |-> city.lon,
                    distance_from_start |->
                      round2(calculate_distance(start.lat, start.lon, city.lat, city.lon)),
                    role |-> "none"] >> \o rest
           ELSE rest

\* the count without its cap of 5
interpolation_points_uncapped(distance) ==
  LET per_100km == distance \div 1000
  IN  IF per_100km > 2 THEN per_100km ELSE 2

\* min(5, max(2, int(total_distance / 100)))
interpolation_points(distance) ==
  LET per_100km == distance \div 1000
      at_least  == IF per_100km > 2 THEN per_100km ELSE 2
  IN  IF at_least < 5 THEN at_least ELSE 5

\* `len(route_cities) < 2 and total_distance > 100`
needs_interpolation(cities, distance) == Len(cities) < 2 /\ distance > 1000

\* the request for directions and, without a route, the curated scan
Directions ==
  /\ pc = "directions"
  /\ \E d \in DirectionsOutcomes(route_start, route_end) :
       /\ waypoints' = d
       /\ IF has_route(d)
          THEN /\ log' = log \o << call("directions", 0, d.kind) >>
               /\ i' = 0
               /\ pc' = "sample"
               /\ UNCHANGED << route_cities, num_points, all_cities, city_index >>
          ELSE LET found    == curated_scan(1, start_city, end_city, route_start,
                                            route_end, DEFAULT_THRESHOLD)
                   distance == calculate_distance(route_start.lat, route_start.lon,
                                                  route_end.lat, route_end.lon)
               IN  /\ log' = log \o << call("directions", 0, d.kind),
                                       call("curated_scan", 0, "done") >>
                   /\ IF needs_interpolation(found, distance)
                      THEN /\ route_cities' = found
                           /\ num_points' = interpolation_points(distance)
                           /\ i' = 1
                           /\ pc' = "interpolate"
                           /\ UNCHANGED << all_cities, city_index >>
                      ELSE /\ ReturnCities(sort_by_distance(found))
                           /\ UNCHANGED << i, num_points >>
  /\ UNCHANGED << start_city, end_city, start_coords, end_coords, total_distance,
                  route_start, route_end, seen_cities, city_weather,
                  weather_warnings, severe_conditions, result, arg, ret >>

\* every how-manieth waypoint is sampled
SAMPLE_INTERVAL == 10

\* the distance_from_start of a city that has none yet
NO_DISTANCE == -1

\* `city_name.lower() not in seen_cities and
\*  city_name.lower() not in [start_city.lower(), end_city.lower()]`
keep_waypoint_city(city_name, seen, start_name, end_name) ==
  /\ lower(city_name) \notin seen
  /\ lower(city_name) \notin {lower(start_name), lower(end_name)}

\* find_cities_from_route_waypoints: one sampled waypoint; after the last
\* one, the distances, the sort and the return
SampleWaypoint ==
  /\ pc = "sample"
  /\ \E r \in ReverseOutcomes(start_city, end_city) :
       LET waypoint == waypoints.waypoints[i + 1]
           called   == waypoint.kind = "at"
           keep     == /\ called
                       /\ r.kind = "found"
                       /\ r.name # << >>
                       /\ keep_waypoint_city(r.name, seen_cities, start_city, end_city)
           cities   == IF keep
                       THEN Append(route_cities,
                                   [name |-> r.name, lat |-> waypoint.lat, lon |-> waypoint.lon,
                                    distance_from_start |-> NO_DISTANCE, role |-> "none"])
                       ELSE route_cities
       IN  /\ log' = IF called THEN log \o << call("sample", i, r.kind) >> ELSE log
           /\ seen_cities' = IF keep THEN seen_cities \cup {lower(r.name)} ELSE seen_cities
           /\ IF i + SAMPLE_INTERVAL >= Len(waypoints.waypoints)
              THEN /\ ReturnCities(sort_by_distance(with_distances(cities)))
                   /\ UNCHANGED i
              ELSE /\ route_cities' = cities
                   /\ i' = i + SAMPLE_INTERVAL
                   /\ UNCHANGED << pc, all_cities, city_index >>
  /\ UNCHANGED << start_city, end_city, start_coords, end_coords, total_distance,
                  route_start, route_end, waypoints, num_points, city_weather,
                  weather_warnings, severe_conditions, result, arg, ret >>

\* the interpolation that compares the names as they are spelled
already_listed_as_spelled(city_name, cities) ==
  \E c \in 1..Len(cities) : cities[c].name = city_name

\* `any(c["name"].lower() == city_info["name"].lower() for c in route_cities)`
already_listed(city_name, cities) ==
  \E c \in 1..Len(cities) : lower(cities[c].name) = lower(city_name)

\* one interpolation point; after the last one, the sort and the return
Interpolate ==
  /\ pc = "interpolate"
  /\ \E r \in ReverseOutcomes(start_city, end_city) :
       LET inter_lat == route_start.lat
                          + ((route_end.lat - route_start.lat) * i) \div (num_points + 1)
           inter_lon == route_start.lon
                          + ((route_end.lon - route_start.lon) * i) \div (num_points + 1)
           add       == r.kind = "found" /\ ~ already_listed(r.name, route_cities)
           cities    == IF add
                        THEN Append(route_cities,
                               [name |-> r.name, lat |-> inter_lat, lon |-> inter_lon,
                                distance_from_start |->
                                  round2(calculate_distance(route_start.lat, route_start.lon,
                                                            inter_lat, inter_lon)),
                                role |-> "none"])
                        ELSE route_cities
       IN  /\ log' = log \o << call("interpolate", i, r.kind) >>
           /\ IF i = num_points
              THEN /\ ReturnCities(sort_by_distance(cities))
                   /\ UNCHANGED i
              ELSE /\ route_cities' = cities
                   /\ i' = i + 1
                   /\ UNCHANGED << pc, all_cities, city_index >>
  /\ UNCHANGED << start_city, end_city, start_coords, end_coords, total_distance,
                  route_start, route_end, waypoints, seen_cities, num_points,
                  city_weather, weather_warnings, severe_conditions, result, arg, ret >>

(* --------------------------- the weather loop -------------------------- *)

\* the loop body with only `critical` tracked as a severe condition
assess_city_critical_only(city, weather, acc) ==
  LET severity  == assess_weather_severity(weather)
      city_data == [city |-> city.name, distance_km |-> city.distance_from_start,
                    weather |-> weather, severity |-> severity,
                    is_start |-> city.role = "start", is_end |-> city.role = "end"]
      severe    == IF severity = "critical"
                   THEN Append(acc.severe_conditions,
                               [city |-> city.name, condition |-> weather.condition])
                   ELSE acc.severe_conditions
      windy     == IF weather.wind_speed > 40
                   THEN Append(acc.weather_warnings,
                               [warning |-> "Strong winds", city |-> city.name])
                   ELSE acc.weather_warnings
      condition_lower == lower(weather.condition)
      rainy     == IF contains(<<"h","e","a","v","y"," ","r","a","i","n">>, condition_lower)
                      \/ contains(<<"t","h","u","n","d","e","r","s","t","o","r","m">>, condition_lower)
                   THEN Append(windy, [warning |-> "Heavy rain", city |-> city.name])
                   ELSE windy
  IN  [city_weather |-> Append(acc.city_weather, city_data),
       weather_warnings |-> rainy,
       severe_conditions |-> severe,
       escaped |-> acc.escaped]

\* the statements of the loop body once the observation is a success
assess_city(city, weather, acc) ==
  LET severity  == assess_weather_severity(weather)
      city_data == [city |-> city.name, distance_km |-> city.distance_from_start,
                    weather |-> weather, severity |-> severity,
                    is_start |-> city.role = "start", is_end |-> city.role = "end"]
      severe    == IF severity \in {"high", "critical"}
                   THEN Append(acc.severe_conditions,
                               [city |-> city.name, condition |-> weather.condition])
                   ELSE acc.severe_conditions
      windy     == IF weather.wind_speed > 40
                   THEN Append(acc.weather_warnings,
                               [warning |-> "Strong winds", city |-> city.name])
                   ELSE acc.weather_warnings
      condition_lower == lower(weather.condition)
      rainy     == IF contains(<<"h","e","a","v","y"," ","r","a","i","n">>, condition_lower)
                      \/ contains(<<"t","h","u","n","d","e","r","s","t","o","r","m">>, condition_lower)
                   THEN Append(windy, [warning |-> "Heavy rain", city |-> city.name])
                   ELSE windy
  IN  [city_weather |-> Append(acc.city_weather, city_data),
       weather_warnings |-> rainy,
       severe_conditions |-> severe,
       escaped |-> acc.escaped]

\* the loop body without its `try`: the provider's error leaves the loop
weather_iteration_unguarded(city, w, acc) ==
  IF w.kind = "raise" THEN [acc EXCEPT !.escaped = TRUE]
  ELSE IF ~ w.weather.success THEN acc
  ELSE assess_city(city, w.weather, acc)

\* the loop body without its test of `success`: every observation is assessed
weather_iteration_unfiltered(city, w, acc) ==
  IF w.kind = "raise" THEN acc
  ELSE assess_city(city, w.weather, acc)

\* the body of `for city in all_cities`, on the lists gathered so far
weather_iteration(city, w, acc) ==
  IF w.kind = "raise" THEN acc
  ELSE IF ~ w.weather.success THEN acc
  ELSE assess_city(city, w.weather, acc)

\* the result of get_route_weather_analysis on success
report(cities, warnings, severe) ==
  [success |-> TRUE,
   route |-> [start |-> start_city, end |-> end_city,
              total_distance_km |-> round2(total_distance),
              cities_count |-> Len(all_cities)],
   cities |-> cities,
   weather_warnings |-> warnings,
   severe_conditions |-> severe,
   recommendation |-> generate_route_recommendation(cities, warnings, severe)]

\* the outcome of a weather call, as the log keeps it
weather_result(w) ==
  IF w.kind = "raise" THEN "raise" ELSE IF w.weather.success THEN "ok" ELSE "failed"

\* the weather of one city; after the last one, the recommendation and the
\* report
FetchWeather ==
  /\ pc = "weather"
  /\ \E w \in WeatherOutcomes :
       LET after == weather_iteration(all_cities[city_index], w,
                      [city_weather |-> city_weather, weather_warnings |-> weather_warnings,
                       severe_conditions |-> severe_conditions, escaped |-> FALSE])
       IN  /\ log' = log \o << call("weather", city_index, weather_result(w)) >>
           /\ city_weather' = after.city_weather
           /\ weather_warnings' = after.weather_warnings
           /\ severe_conditions' = after.severe_conditions
           /\ IF after.escaped
              THEN Escapes /\ UNCHANGED city_index
              ELSE IF city_index = Len(all_cities)
              THEN /\ result' = report(after.city_weather, after.weather_warnings,
                                       after.severe_conditions)
                   /\ pc' = "done"
                   /\ UNCHANGED city_index
              ELSE /\ city_index' = city_index + 1
                   /\ UNCHANGED << pc, result >>
  /\ UNCHANGED << start_city, end_city, start_coords, end_coords, total_distance,
                  route_start, route_end, waypoints, i, seen_cities, route_cities,
                  num_points, all_cities, arg, ret >>

Next ==
  \/ Analyze
  \/ ResolveGeocode
  \/ Directions
  \/ SampleWaypoint
  \/ Interpolate
  \/ FetchWeather

Spec == Init /\ [][Next]_vars

(* ---------------- the resolution alone, on routes of every length ------ *)

\* routes by length and curated cities: 51 km with one city, 115 km with
\* two, 125 km with one, and 439, 517 and 1374 km with none
ROUTES_BY_LENGTH ==
  { << <<"S","a","l","e","m">>, <<"D","h","a","r","m","a","p","u","r","i">> >>,
    << <<"T","r","i","c","h","y">>, <<"S","a","l","e","m">> >>,
    << <<"c","h","e","n","n","a","i">>, <<"V","E","L","L","O","R","E">> >>,
    << <<"M","u","m","b","a","i">>, <<"A","h","m","e","d","a","b","a","d">> >>,
    << <<"C","h","e","n","n","a","i">>, <<"H","y","d","e","r","a","b","a","d">> >>,
    << <<"C","h","e","n","n","a","i">>, <<"K","o","l","k","a","t","a">> >> }

InitResolve ==
  /\ pc = "analyze"
  /\ \E r \in ROUTES_BY_LENGTH : start_city = r[1] /\ end_city = r[2]
  /\ Idle
  /\ arg = none /\ ret = none

\* the analysis to the return of find_cities_along_route
NextResolve ==
  \/ Analyze
  \/ ResolveGeocode
  \/ Directions
  \/ SampleWaypoint
  \/ Interpolate

SpecResolve == InitResolve /\ [][NextResolve]_vars

(* ------------------- the pure functions, called alone ------------------ *)

\* condition texts of an observation
CONDITIONS ==
  { << >>, <<"C","l","e","a","r">>, <<"P","a","r","t","l","y"," ","c","l","o","u","d","y">>, <<"T","h","u","n","d","e","r","s","t","o","r","m">>, <<"H","E","A","V","Y"," ","R","A","I","N">>, <<"H","a","i","l","s","t","o","r","m">>,
    <<"S","e","v","e","r","e"," ","S","t","o","r","m"," ","w","a","r","n","i","n","g">>, <<"L","i","g","h","t"," ","s","n","o","w"," ","s","h","o","w","e","r","s">>, <<"m","i","s","t">>, <<"D","e","n","s","e"," ","F","o","g">>,
    <<"m","o","d","e","r","a","t","e"," ","r","a","i","n",","," ","t","h","u","n","d","e","r","s","t","o","r","m"," ","l","a","t","e","r">>, <<"H","e","a","v","y"," ","S","n","o","w"," ","a","n","d"," ","f","o","g">> }

TEMPERATURES == { -6, -5, 1, 2, 7, 8, 25, 38, 39, 43, 44, 48, 49 }

WIND_SPEEDS == { 0, 25, 26, 40, 41, 60, 61 }

InitClassify ==
  /\ pc = "classify"
  /\ arg \in [success : {TRUE}, condition : CONDITIONS,
              wind_speed : WIND_SPEEDS, temperature : TEMPERATURES]
  /\ ret = none
  /\ start_city = << >> /\ end_city = << >>
  /\ Idle

\* assess_weather_severity(arg)
Classify ==
  /\ pc = "classify"
  /\ ret' = assess_weather_severity(arg)
  /\ pc' = "classified"
  /\ UNCHANGED << start_city, end_city, start_coords, end_coords, total_distance,
                  route_start, route_end, waypoints, i, seen_cities, route_cities,
                  num_points, all_cities, city_index, city_weather, weather_warnings,
                  severe_conditions, result, log, arg >>

SpecClassify == InitClassify /\ [][Classify]_vars

\* the longest list of assessments given to the recommendation engine
MaxAssessments == 4

SEVERITIES == {"low", "medium", "high", "critical"}

\* the assessments of n cities with the severities sev[1..n]; the k-th
\* city's name is k letters long
assessments_of(sev) ==
  [k \in 1..Len(sev) |-> [city |-> [j \in 1..k |-> "x"], severity |-> sev[k]]]

InitRecommend ==
  /\ pc = "recommend"
  /\ \E n \in 0..MaxAssessments : \E sev \in [1..n -> SEVERITIES] :
       arg = assessments_of(sev)
  /\ ret = none
  /\ start_city = << >> /\ end_city = << >>
  /\ Idle

\* generate_route_recommendation(arg, [], [])
Recommend ==
  /\ pc = "recommend"
  /\ ret' = generate_route_recommendation(arg, << >>, << >>)
  /\ pc' = "recommended"
  /\ UNCHANGED << start_city, end_city, start_coords, end_coords, total_distance,
                  route_start, route_end, waypoints, i, seen_cities, route_cities,
                  num_points, all_cities, city_index, city_weather, weather_warnings,
                  severe_conditions, result, log, arg >>

SpecRecommend == InitRecommend /\ [][Recommend]_vars

\* coordinates given to is_point_near_route: Salem, Dharmapuri, Krishnagiri
\* and Chennai
NEAR_POINTS ==
  { [lat |-> MAJOR_CITIES_INDIA[j].lat, lon |-> MAJOR_CITIES_INDIA[j].lon] :
      j \in {1, 7, 13, 14} }

\* thresholds given to it, in tenths of a km
THRESHOLDS == { 0, 1, 100, 500, 2000 }

InitNear ==
  /\ pc = "near"
  /\ arg \in [point : NEAR_POINTS, start : NEAR_POINTS, end : NEAR_POINTS,
              threshold_km : THRESHOLDS]
  /\ ret = none
  /\ start_city = << >> /\ end_city = << >>
  /\ Idle

\* is_point_near_route(arg)
Near ==
  /\ pc = "near"
  /\ ret' = is_point_near_route(arg.point.lat, arg.point.lon, arg.start.lat, arg.start.lon,
                                arg.end.lat, arg.end.lon, arg.threshold_km)
  /\ pc' = "near_checked"
  /\ UNCHANGED << start_city, end_city, start_coords, end_coords, total_distance,
                  route_start, route_end, waypoints, i, seen_cities, route_cities,
                  num_points, all_cities, city_index, city_weather, weather_warnings,
                  severe_conditions, result, log, arg >>

SpecNear == InitNear /\ [][Near]_vars

(* ------------------ the weather loop on richer observations ------------ *)

\* how many cities the route of the weather loop has
MaxFetched == 2

ROUTE_CONDITIONS == { <<"C","l","e","a","r">>, <<"F","o","g">>, <<"L","i","g","h","t"," ","r","a","i","n">>, <<"H","E","A","V","Y"," ","R","A","I","N">>, <<"T","h","u","n","d","e","r","s","t","o","r","m">> }

ROUTE_WINDS == { 25, 40, 41, 61 }

ROUTE_TEMPERATURES == { 25, 44 }

\* get_weather_data on these conditions: an observation, a failure or an error
RouteWeatherOutcomes ==
  {[kind |-> "raise"],
   [kind |-> "return",
    weather |-> [success |-> FALSE, condition |-> << >>, wind_speed |-> 0,
                 temperature |-> 25]]}
  \cup {[kind |-> "return", weather |-> o] :
          o \in [success : {TRUE}, condition : ROUTE_CONDITIONS,
                 wind_speed : ROUTE_WINDS, temperature : ROUTE_TEMPERATURES]}

\* a complete route of n cities, start first and end last; the k-th city's
\* name is k letters long
cities_of(n) ==
  [k \in 1..n |->
     [name |-> [j \in 1..k |-> "x"], lat |-> 0, lon |-> 0,
      distance_from_start |-> k - 1,
      role |-> IF k = 1 THEN "start" ELSE IF k = n THEN "end" ELSE "none"]]

\* the loop is entered with a complete route; arg holds what the weather
\* provider will answer for each city
InitAssess ==
  /\ pc = "assess"
  /\ start_city = << "x" >> /\ end_city = [j \in 1..MaxFetched |-> "x"]
  /\ start_coords = none /\ end_coords = none
  /\ total_distance = MaxFetched - 1
  /\ route_start = none /\ route_end = none
  /\ waypoints = none /\ i = 0 /\ seen_cities = {} /\ route_cities = << >>
  /\ num_points = 0
  /\ all_cities = cities_of(MaxFetched)
  /\ city_index = 1
  /\ city_weather = << >> /\ weather_warnings = << >> /\ severe_conditions = << >>
  /\ result = none /\ log = << >>
  /\ arg \in [1..MaxFetched -> RouteWeatherOutcomes]
  /\ ret = none

\* one iteration of `for city in all_cities`; after the last one, the
\* recommendation and the report
AssessCity ==
  /\ pc = "assess"
  /\ LET w     == arg[city_index]
         after == weather_iteration(all_cities[city_index], w,
                    [city_weather |-> city_weather, weather_warnings |-> weather_warnings,
                     severe_conditions |-> severe_conditions, escaped |-> FALSE])
     IN  /\ log' = log \o << call("weather", city_index, weather_result(w)) >>
         /\ city_weather' = after.city_weather
         /\ weather_warnings' = after.weather_warnings
         /\ severe_conditions' = after.severe_conditions
         /\ IF after.escaped
            THEN Escapes /\ UNCHANGED city_index
            ELSE IF city_index = Len(all_cities)
            THEN /\ result' = report(after.city_weather, after.weather_warnings,
                                     after.severe_conditions)
                 /\ pc' = "assessed"
                 /\ UNCHANGED city_index
            ELSE /\ city_index' = city_index + 1
                 /\ UNCHANGED << pc, result >>
  /\ UNCHANGED << start_city, end_city, start_coords, end_coords, total_distance,
                  route_start, route_end, waypoints, i, seen_cities, route_cities,
                  num_points, all_cities, arg, ret >>

SpecAssess == InitAssess /\ [][AssessCity]_vars

(* ------------------------------- claims -------------------------------- *)

\* the calls of the log made of operation op, in their order
calls_of(op) == SelectSeq(log, LAMBDA c : c.op = op)

\* some call of op ended with res
called_with(op, res) == \E n \in 1..Len(log) : log[n].op = op /\ log[n].res = res

\* C1: the complete route (START, the intermediates, END) is sorted
\* ascending by distance_from_start, START first with distance 0 and END
\* last with the total distance, so that no intermediate lies beyond END.
C1_CompleteRouteSorted ==
  all_cities # << >> =>
    LET n == Len(all_cities)
    IN  /\ all_cities[1].role = "start"
        /\ all_cities[1].distance_from_start = 0
        /\ all_cities[n].role = "end"
        /\ all_cities[n].distance_from_start = round2(total_distance)
        /\ \A a \in 1..(n - 1) :
             all_cities[a].distance_from_start <= all_cities[a + 1].distance_from_start

\* C2: on every resolution path no intermediate city bears, in any case,
\* the start name or the end name, nor the name of the START or END entry.
C2_NoIntermediateNamedAsEndpoint ==
  /\ \A c \in 1..Len(route_cities) :
       lower(route_cities[c].name) \notin {lower(start_city), lower(end_city)}
  /\ \A c \in 2..(Len(all_cities) - 1) :
       lower(all_cities[c].name) \notin
         {lower(all_cities[1].name), lower(all_cities[Len(all_cities)].name)}

\* the tier an observation matches on any one of its three fields
in_tier(o, words, hot, cold, windy) ==
  \/ \E k \in 1..Len(words) : contains(words[k], lower(o.condition))
  \/ o.temperature > hot
  \/ o.temperature < cold
  \/ o.wind_speed > windy

\* the ordered tier table: the first matching tier wins
tier_table(o) ==
  CASE in_tier(o, CRITICAL_WORDS, 48, -5, 60) -> "critical"
    [] ~ in_tier(o, CRITICAL_WORDS, 48, -5, 60)
       /\ in_tier(o, HIGH_WORDS, 43, 2, 40) -> "high"
    [] ~ in_tier(o, CRITICAL_WORDS, 48, -5, 60)
       /\ ~ in_tier(o, HIGH_WORDS, 43, 2, 40)
       /\ in_tier(o, MEDIUM_WORDS, 38, 8, 25) -> "medium"
    [] OTHER -> "low"

\* C3: the classifier returns a level for every observation, and it is the
\* level of the ordered tier table (CRITICAL, then HIGH, then MEDIUM, else
\* LOW), so a match of a higher tier on one field is never lowered by the
\* other fields.
C3_ClassifierIsTierTable ==
  pc = "classified" => ret \in SEVERITIES /\ ret = tier_table(arg)

\* an observation matched by a critical keyword alone is critical
C3_Witness ==
  /\ pc = "classified"
  /\ arg.condition = <<"T","h","u","n","d","e","r","s","t","o","r","m">> /\ arg.temperature = 25 /\ arg.wind_speed = 0
  /\ ret = "critical"

\* the names of the cities of severity s, in the order of the assessments
named(assessments, s) ==
  LET at == {k \in 1..Len(assessments) : assessments[k].severity = s}
      nth(j) == CHOOSE k \in at : Cardinality({h \in at : h < k}) = j - 1
  IN  [j \in 1..Cardinality(at) |-> assessments[nth(j)].city]

C5_NoResultFailsAnalysis ==
  pc = "done" /\ called_with("geocode", "none") => result.success = FALSE

\* C6: whatever the weather calls give, the analysis returns a report; each
\* city of the complete route is fetched once, in order, and the
\* assessments are the cities whose fetch succeeded, one each, in the
\* route's order.
C6_AssessmentsAreFetchedCities ==
  LET fetched == calls_of("weather")
      ok      == SelectSeq(fetched, LAMBDA c : c.res = "ok")
  IN  /\ \A k \in 1..Len(fetched) : fetched[k].n = k
      /\ pc = "weather" => Len(fetched) = city_index - 1
      /\ Len(city_weather) = Len(ok)
      /\ \A k \in 1..Len(ok) :
           /\ city_weather[k].city = all_cities[ok[k].n].name
           /\ city_weather[k].distance_km = all_cities[ok[k].n].distance_from_start
           /\ city_weather[k].is_start = (ok[k].n = 1)
           /\ city_weather[k].is_end = (ok[k].n = Len(all_cities))
           /\ city_weather[k].severity = assess_weather_severity(city_weather[k].weather)
      /\ pc = "done" /\ fetched # << >> =>
           /\ Len(fetched) = Len(all_cities)
           /\ result.success = TRUE
           /\ result.cities = city_weather

\* a report of four cities, the second failed and the third in error
C6_Witness ==
  /\ pc = "done"
  /\ Len(all_cities) = 4
  /\ [k \in 1..4 |-> calls_of("weather")[k].res] = << "ok", "failed", "raise", "ok" >>
  /\ result.success = TRUE
  /\ Len(result.cities) = 2
  /\ result.cities[1].is_start /\ result.cities[2].is_end

\* C7: the analysis ends in a report or in a failure, and in a failure
\* only when a geocoding of the start or end city failed; no failure of
\* the directions, of a reverse geocoding or of a weather fetch makes it one.
C7_FailureOnlyFromGeocoding ==
  /\ pc = "done" =>
       \/ result = report(city_weather, weather_warnings, severe_conditions)
       \/ /\ result.success = FALSE
          /\ called_with("geocode", "none") \/ called_with("geocode", "raise")
  /\ pc # "done" => ENABLED Next

\* a report after the directions, a reverse geocoding and two weather
\* fetches failed
C7_Witness ==
  /\ pc = "done"
  /\ result.success = TRUE
  /\ called_with("directions", "none")
  /\ called_with("interpolate", "none")
  /\ called_with("weather", "raise")
  /\ called_with("weather", "failed")

\* C8: is_near_route is true of a point that coincides with start or end,
\* for every threshold, 0 included.
C8_EndpointsAreNear ==
  pc = "near_checked" /\ (arg.point = arg.start \/ arg.point = arg.end) => ret = TRUE

C10_IntermediateNamesUnique ==
  \A a, b \in 1..Len(route_cities) :
    a # b => lower(route_cities[a].name) # lower(route_cities[b].name)

\* one curated city and two interpolation points that both resolved, one
\* of them to a name already listed
C10_Witness ==
  /\ pc = "weather"
  /\ Len(calls_of("curated_scan")) = 1
  /\ Len(SelectSeq(log, LAMBDA c : c.op = "interpolate" /\ c.res = "found")) = 2
  /\ Len(route_cities) = 2
  /\ \E c \in 1..2 : route_cities[c].name = <<"K","a","n","c","h","i","p","u","r","a","m">>

\* the curated cities and the length (tenths of a km) of the route resolved
curated_found ==
  curated_scan(1, start_city, end_city, route_start, route_end, DEFAULT_THRESHOLD)

route_length ==
  calculate_distance(route_start.lat, route_start.lon, route_end.lat, route_end.lon)

\* one point per 100 km, not fewer than least and not more than most
points_per_100km(least, most) ==
  LET per_100km == route_length \div 1000
  IN  IF per_100km < least THEN least
      ELSE IF per_100km > most THEN most
      ELSE per_100km

\* the fallback interpolates `wanted` points when fewer than 2 curated
\* cities were found and the route is longer than 100 km, and none otherwise
interpolates(wanted) ==
  LET runs  == calls_of("interpolate")
      due   == IF Len(curated_found) < 2 /\ route_length > 1000 THEN wanted ELSE 0
  IN  IF calls_of("curated_scan") = << >> THEN runs = << >>
      ELSE /\ \A k \in 1..Len(runs) : runs[k].n = k
           /\ Len(runs) <= due
           /\ pc = "interpolate" => Len(runs) = i - 1 /\ num_points = due
           /\ pc \in {"weather", "done"} => Len(runs) = due

severe_entries(assessments) ==
  LET severe == SelectSeq(assessments, LAMBDA a : a.severity \in {"high", "critical"})
  IN  [k \in 1..Len(severe) |->
         [city |-> severe[k].city, condition |-> severe[k].weather.condition]]

\* C12: severe_conditions holds exactly one entry for each assessment of
\* severity high or critical and none for one of severity low or medium, in
\* the order of the assessments; without assessments, severe_conditions and
\* the warnings are both empty. This holds of the lists while they are
\* gathered and of every report.
C12_SevereConditionsFollowAssessments ==
  /\ severe_conditions = severe_entries(city_weather)
  /\ city_weather = << >> => weather_warnings = << >> /\ severe_conditions = << >>
  /\ pc = "done" /\ result.success = TRUE =>
       /\ result.severe_conditions = severe_entries(result.cities)
       /\ result.cities = << >> =>
            result.weather_warnings = << >> /\ result.severe_conditions = << >>

\* a report with a city of low or medium severity between two severe ones
C12_Witness ==
  /\ pc = "done"
  /\ result.success = TRUE
  /\ Len(result.cities) = 3
  /\ result.cities[1].severity = "high"
  /\ result.cities[2].severity \in {"low", "medium"}
  /\ result.cities[3].severity = "critical"
  /\ Len(result.severe_conditions) = 2

\* the observation contributes a warning: wind above 40 km/h, or a
\* condition containing "heavy rain" or "thunderstorm"
warns(weather) ==
  \/ weather.wind_speed > 40
  \/ contains(<<"h","e","a","v","y"," ","r","a","i","n">>, lower(weather.condition))
  \/ contains(<<"t","h","u","n","d","e","r","s","t","o","r","m">>, lower(weather.condition))

\* C13: every assessment that contributes a warning is of severity high or
\* critical, so warnings come only with severe conditions: in every report
\* with a warning, severe_conditions is not empty and the recommendation is
\* "do not travel", "travel not recommended" or "caution advised", never
\* "safe with caution" or "excellent conditions".
C13_WarningsImplySevere ==
  /\ \A k \in 1..Len(city_weather) :
       warns(city_weather[k].weather) =>
         city_weather[k].severity \in {"high", "critical"}
  /\ \A k \in 1..Len(weather_warnings) :
       \E s \in 1..Len(severe_conditions) :
         severe_conditions[s].city = weather_warnings[k].city
  /\ weather_warnings # << >> => severe_conditions # << >>
  /\ pc = "assessed" /\ result.weather_warnings # << >> =>
       /\ result.severe_conditions # << >>
       /\ result.recommendation.verdict
            \in {"do_not_travel", "travel_not_recommended", "caution_advised"}

\* a report whose only warning is the strong wind of a clear, mild city
C13_Witness ==
  /\ pc = "assessed"
  /\ Len(result.cities) = 2
  /\ result.cities[2].weather.condition = <<"C","l","e","a","r">>
  /\ result.cities[2].weather.wind_speed = 41
  /\ result.cities[2].weather.temperature = 25
  /\ Len(result.weather_warnings) = 1
  /\ result.weather_warnings[1].warning = "Strong winds"
  /\ Len(result.severe_conditions) = 1
  /\ result.recommendation.verdict = "caution_advised"

====
